---- MODULE Spec2Model ----
(***************************************************************************)
(* Model of src/windows/capture.rs of xcap: the two entry points           *)
(* capture_monitor and capture_window, the scope guards that own the GDI   *)
(* handles, the fallback chain of capture techniques, the read-back        *)
(* to_rgba_image and the chrome classifier window_has_native_header with   *)
(* the crop rectangle derived from it.                                     *)
(*                                                                         *)
(* Every OS call is a step whose outcome is chosen nondeterministically    *)
(* among the outcomes the OS can report; the order of the steps is the     *)
(* order of the statements of the source.  trace records the OS calls of   *)
(* the current call in the order they are made.                            *)
(***************************************************************************)
EXTENDS Integers, Sequences, FiniteSets, TLC

VARIABLES
    pc,            \* position in the running entry point, or "idle" / "done"
    call,          \* the arguments of the running call
    window_info,   \* WINDOWINFO read by get_window_info (capture_window)
    width,         \* local `width`  (i32)
    height,        \* local `height` (i32)
    acq,           \* per handle: "unset", "valid" or "null" (what the acquisition returned)
    guards,        \* the scope guards alive, in order of construction
    live,          \* handles obtained from the OS and not yet handed to their release call
    releases,      \* per handle: how often its release function has been called
    selected,      \* object currently selected into the memory DC
    previous_object, \* local `previous_object` of capture_window
    is_success,    \* local `is_success` of capture_window
    os_major,      \* what get_os_major_version returned, 0 before it is called
    composition,   \* what DwmIsCompositionEnabled reported: "on", "off", "error"; "unset" before
    buffer_len,    \* length of the byte buffer to_rgba_image allocated, NoBuffer before
    has_header,    \* result of window_has_native_header, "unset" before it ran
    crop,          \* rectangle handed to DynamicImage::crop, NoCrop before
    result,        \* value the call returns
    logged,        \* handles whose release logged an error (log::error!)
    trace          \* OS calls of this call, in order: [op, ok]

vars == << pc, call, window_info, width, height, acq, guards, live, releases,
           selected, previous_object, is_success, os_major, composition, buffer_len,
           has_header, crop, result, logged, trace >>

----------------------------------------------------------------------------
(* Single-precision arithmetic.  A scale factor s is held as the integer   *)
(* s * 2^23 (an f32 in [2^-23, 4) has such a representation).  The product *)
(* of an i32 and an f32 is rounded to 24 significant bits, ties to even,   *)
(* as the f32 multiplication of the source does.  Values are pairs         *)
(* <<integer part, fraction in units of 2^-23>> of the absolute value.     *)

Pow2(n) == 2 ^ n

Min(a, b) == IF a < b THEN a ELSE b

Abs(a) == IF a < 0 THEN 0 - a ELSE a

\* number of bits of a natural number below 2^16
BitLen(n) == CHOOSE k \in 0..16 : (n < Pow2(k)) /\ (k = 0 \/ n >= Pow2(k - 1))

\* |d| * sN / 2^23, exact, as <<integer part, fraction * 2^23>>; |d| < 2^12, sN < 2^25
ExactMul(d, sN) ==
    LET a  == Abs(d)
        nh == sN \div 4096
        nl == sN % 4096
        lo == a * nl
        A  == a * nh + (lo \div 4096)
        B  == lo % 4096
    IN  << A \div 2048, (A % 2048) * 4096 + B >>

\* round an exact value to the nearest f32 (24 significant bits, ties to even)
RoundF32(v) ==
    LET I == v[1]
        F == v[2]
        k == BitLen(I) - 1
        u == Pow2(k)
        q == F \div u
        r == F % u
        up == (2 * r > u) \/ (2 * r = u /\ q % 2 = 1)
        F2 == (IF up THEN q + 1 ELSE q) * u
    IN  IF I < 2 THEN v
        ELSE IF F2 = Pow2(23) THEN << I + 1, 0 >> ELSE << I, F2 >>

\* (d as f32 * s): sign and magnitude of the f32 product
F32Mul(d, sN) == [neg |-> d < 0, mag |-> RoundF32(ExactMul(d, sN))]

\* f32::ceil and f32::floor of a product, as integers
F32Ceil(p) ==
    IF p.neg THEN 0 - p.mag[1]
    ELSE p.mag[1] + (IF p.mag[2] > 0 THEN 1 ELSE 0)

F32Floor(p) ==
    IF p.neg THEN 0 - (p.mag[1] + (IF p.mag[2] > 0 THEN 1 ELSE 0))
    ELSE p.mag[1]

\* `as u32` on an integral f32: saturating at 0
AsU32(v) == IF v < 0 THEN 0 ELSE v

----------------------------------------------------------------------------
(* Window geometry and style.  dwStyle is the set of style bits that are   *)
(* set; a mask is the set of its bits, and (style & mask) != 0 is a        *)
(* non-empty intersection.  WS_CAPTION is the two-bit mask                 *)
(* WS_BORDER | WS_DLGFRAME of the Win32 headers.                           *)

WS_CAPTION == {"WS_BORDER", "WS_DLGFRAME"}

WS_THICKFRAME == {"WS_THICKFRAME"}

WS_DLGFRAME == {"WS_DLGFRAME"}

StyleBits == {"WS_BORDER", "WS_DLGFRAME", "WS_THICKFRAME"}

TitleBarThreshold == 25

BorderThreshold == 5

MinPrintWindowOsVersion == 8

Rect(l, t, r, b) == [left |-> l, top |-> t, right |-> r, bottom |-> b]

WindowInfo(rw, rc, style) == [rcWindow |-> rw, rcClient |-> rc, dwStyle |-> style]

NoInfo == WindowInfo(Rect(0, 0, 0, 0), Rect(0, 0, 0, 0), {})

\* fn window_has_native_header(window_info: &WINDOWINFO) -> bool
window_has_native_header_NoBottom(wi) ==
    LET has_caption == (wi.dwStyle \cap WS_CAPTION) # {}
        has_frame == (wi.dwStyle \cap WS_THICKFRAME) # {} \/ (wi.dwStyle \cap WS_DLGFRAME) # {}
        title_bar_height == wi.rcClient.top - wi.rcWindow.top
        left_border == wi.rcClient.left - wi.rcWindow.left
        right_border == wi.rcWindow.right - wi.rcClient.right
    IN  IF has_caption /\ title_bar_height >= TitleBarThreshold
        THEN has_frame /\ left_border > BorderThreshold /\ right_border > BorderThreshold
        ELSE FALSE

window_has_native_header(wi) ==
    LET has_caption == (wi.dwStyle \cap WS_CAPTION) # {}
        has_frame == (wi.dwStyle \cap WS_THICKFRAME) # {} \/ (wi.dwStyle \cap WS_DLGFRAME) # {}
        title_bar_height == wi.rcClient.top - wi.rcWindow.top
    IN  IF has_caption /\ title_bar_height > TitleBarThreshold
        THEN LET left_border == wi.rcClient.left - wi.rcWindow.left
                 right_border == wi.rcWindow.right - wi.rcClient.right
                 bottom_border == wi.rcWindow.bottom - wi.rcClient.bottom
                 has_consistent_borders ==
                     /\ left_border > BorderThreshold
                     /\ right_border > BorderThreshold
                     /\ bottom_border > BorderThreshold
             IN  has_frame /\ has_consistent_borders
        ELSE FALSE

NoCrop == [x |-> 0 - 1, y |-> 0 - 1, w |-> 0 - 1, h |-> 0 - 1]

\* the arguments of crop() in the native-header branch of capture_window
NativeCrop_ClientHeight(wi, s) ==
    [ x |-> AsU32(F32Ceil(F32Mul(wi.rcClient.left - wi.rcWindow.left, s))),
      y |-> 0,
      w |-> AsU32(F32Floor(F32Mul(wi.rcClient.right - wi.rcClient.left, s))),
      h |-> AsU32(F32Floor(F32Mul(wi.rcClient.bottom - wi.rcClient.top, s))) ]

NativeCrop(wi, s) ==
    [ x |-> AsU32(F32Ceil(F32Mul(wi.rcClient.left - wi.rcWindow.left, s))),
      y |-> 0,
      w |-> AsU32(F32Floor(F32Mul(wi.rcClient.right - wi.rcClient.left, s))),
      h |-> AsU32(F32Floor(F32Mul(wi.rcClient.bottom - wi.rcWindow.top, s))) ]

\* the arguments of crop() in the branch without native header
CustomCrop_FloorOrigin(wi, s) ==
    [ x |-> AsU32(F32Floor(F32Mul(wi.rcClient.left - wi.rcWindow.left, s))),
      y |-> AsU32(F32Floor(F32Mul(wi.rcClient.top - wi.rcWindow.top, s))),
      w |-> AsU32(F32Floor(F32Mul(wi.rcClient.right - wi.rcClient.left, s))),
      h |-> AsU32(F32Floor(F32Mul(wi.rcClient.bottom - wi.rcClient.top, s))) ]

CustomCrop(wi, s) ==
    [ x |-> AsU32(F32Ceil(F32Mul(wi.rcClient.left - wi.rcWindow.left, s))),
      y |-> AsU32(F32Ceil(F32Mul(wi.rcClient.top - wi.rcWindow.top, s))),
      w |-> AsU32(F32Floor(F32Mul(wi.rcClient.right - wi.rcClient.left, s))),
      h |-> AsU32(F32Floor(F32Mul(wi.rcClient.bottom - wi.rcClient.top, s))) ]

\* DynamicImage::crop(x, y, w, h).to_rgba8(): the rectangle is clamped to the
\* image, and the returned image has the clamped width and height
ImageCrop(iw, ih, c) ==
    LET x == Min(c.x, iw)
        y == Min(c.y, ih)
    IN  [width |-> Min(c.w, iw - x), height |-> Min(c.h, ih - y)]

----------------------------------------------------------------------------
(* Results.  XCapError carries a message only; the kinds name the place    *)
(* the error comes from.                                                   *)

NoResult == [kind |-> "none", width |-> 0, height |-> 0]

Ok(w, h) == [kind |-> "Ok", width |-> w, height |-> h]

Err(k) == [kind |-> k, width |-> 0, height |-> 0]

\* width * height * 4 in i32: does the multiplication overflow, and the wrapped value
Mul4Overflows(w, h) == (w * h >= Pow2(29)) \/ (w * h < 0 - Pow2(29))

Mul4Wrapped(w, h) ==
    LET q == (w * h) % Pow2(30)
    IN  IF q < Pow2(29) THEN q * 4 ELSE (q - Pow2(30)) * 4

\* bgra_to_rgba_image(width, height, buffer), the buffer given by its length
bgra_to_rgba_image(w, h, len) ==
    IF len % 4 = 0 /\ len \div 4 = w * h THEN Ok(w, h) ELSE Err("InvalidBufferSize")

\* GetDIBits reports success only for valid handles and a positive size
\* (biWidth <= 0 is rejected, and zero scan lines copy zero lines)
GetDIBitsCanSucceed(a, w, h) ==
    a["hdc_mem"] = "valid" /\ a["h_bitmap"] = "valid" /\ w > 0 /\ h > 0

\* no buffer has been allocated (vec! not reached, or it panicked)
NoBuffer == 0 - 1

\* fn to_rgba_image(hdc_mem, h_bitmap, width, height): build is "debug" (overflow
\* checks on) or "release"; dib_ok is what GetDIBits reports.  called tells
\* whether GetDIBits was reached, len is the length of the buffer allocated,
\* ub whether GetDIBits wrote its scan lines past the end of a buffer that a
\* wrapped buffer_size made too short (undefined behaviour).
to_rgba_image_IgnoreFailure(w, h, build, dib_ok) ==
    IF Mul4Overflows(w, h) /\ build = "debug"
    THEN [res |-> Err("Panic"), called |-> FALSE, len |-> NoBuffer, ub |-> FALSE]
    ELSE LET buffer_size == Mul4Wrapped(w, h)
         IN  IF buffer_size < 0
             THEN [res |-> Err("Panic"), called |-> FALSE, len |-> NoBuffer, ub |-> FALSE]
             ELSE [res |-> bgra_to_rgba_image(w, h, buffer_size),
                   called |-> TRUE, len |-> buffer_size,
                   ub |-> dib_ok /\ Mul4Overflows(w, h)]

to_rgba_image(w, h, build, dib_ok) ==
    IF Mul4Overflows(w, h) /\ build = "debug"
    THEN [res |-> Err("Panic"), called |-> FALSE, len |-> NoBuffer, ub |-> FALSE]
    ELSE LET buffer_size == Mul4Wrapped(w, h)
         IN  IF buffer_size < 0
             THEN [res |-> Err("Panic"), called |-> FALSE, len |-> NoBuffer, ub |-> FALSE]
             ELSE IF ~dib_ok
                  THEN [res |-> Err("PixelReadFailed"), called |-> TRUE,
                        len |-> buffer_size, ub |-> FALSE]
                  ELSE [res |-> bgra_to_rgba_image(w, h, buffer_size),
                        called |-> TRUE, len |-> buffer_size,
                        ub |-> Mul4Overflows(w, h)]

----------------------------------------------------------------------------
(* Inputs of the model.                                                    *)

Handles == {"hdc_window", "hdc_mem", "h_bitmap"}

\* scale factors 0.5, 1.0, 1.1f32 and 1.5, as s * 2^23
ScaleFactors == {Pow2(22), Pow2(23), 9227469, 3 * Pow2(22)}

CaptionThick == {"WS_BORDER", "WS_DLGFRAME", "WS_THICKFRAME"}

\* windows get_window_info reports: a framed window with title bar, a
\* borderless window, a dialog collapsed to its title bar, a framed window
\* away from the origin, a framed window maximized on a 1920 x 1080 screen
\* (its frame lies outside the screen)
WindowInfos ==
    { WindowInfo(Rect(0, 0, 800, 600), Rect(8, 31, 792, 592), CaptionThick),
      WindowInfo(Rect(0, 0, 800, 600), Rect(0, 0, 800, 600), {}),
      WindowInfo(Rect(0, 0, 206, 29), Rect(3, 26, 203, 26), WS_CAPTION),
      WindowInfo(Rect(100, 50, 311, 262), Rect(110, 83, 301, 252), CaptionThick),
      WindowInfo(Rect(0 - 8, 0 - 8, 1928, 1088), Rect(0, 23, 1920, 1080), CaptionThick) }

\* sizes GetObjectW reports for the bitmap selected in the window DC
BitmapSizes == { <<1, 1>>, <<1920, 1080>> }

OsMajorVersions == {7, 8}

MonitorOrigins == { <<0, 0>>, <<100, 50>> }

MonitorSizes == {0 - 1, 0, 1, 100, 32768}

Builds == {"debug", "release"}

NoCall == [fn |-> "none", x |-> 0, y |-> 0, width |-> 0, height |-> 0, scale_factor |-> 0]

Unset == [h \in Handles |-> "unset"]

Event(op, ok) == [op |-> op, ok |-> ok]

Reverse(q) == [i \in 1..Len(q) |-> q[Len(q) + 1 - i]]

Init ==
    /\ pc = "idle"
    /\ call = NoCall
    /\ window_info = NoInfo
    /\ width = 0
    /\ height = 0
    /\ acq = Unset
    /\ guards = << >>
    /\ live = {}
    /\ releases = [h \in Handles |-> 0]
    /\ selected = "stock"
    /\ previous_object = "unset"
    /\ is_success = FALSE
    /\ os_major = 0
    /\ composition = "unset"
    /\ buffer_len = NoBuffer
    /\ has_header = "unset"
    /\ crop = NoCrop
    /\ result = NoResult
    /\ logged = {}
    /\ trace = << >>

\* the state a call starts from: nothing of an earlier call is kept, only the
\* handles an earlier call left outstanding
FreshCall(c) ==
    /\ pc \in {"idle", "done"}
    /\ call' = c
    /\ releases' = [h \in Handles |-> 0]
    /\ selected' = "stock"
    /\ previous_object' = "unset"
    /\ is_success' = FALSE
    /\ os_major' = 0
    /\ composition' = "unset"
    /\ buffer_len' = NoBuffer
    /\ has_header' = "unset"
    /\ crop' = NoCrop
    /\ logged' = {}

\* guard(acquire(), release): the value the acquisition returned is wrapped in a
\* scope guard whether or not it is a valid handle
Acquire(h, ok, next) ==
    /\ acq' = [acq EXCEPT ![h] = IF ok THEN "valid" ELSE "null"]
    /\ guards' = Append(guards, h)
    /\ live' = IF ok THEN live \cup {h} ELSE live
    /\ pc' = next

\* SelectObject(hdc_mem, h_bitmap): selects when both handles are valid and
\* returns the object selected before, NULL otherwise
CanSelect(ok) == acq["hdc_mem"] = "valid" /\ ok

ReleaseOp(h) ==
    CASE h = "hdc_window" -> "ReleaseDC"
      [] h = "hdc_mem" -> "DeleteDC"
      [] h = "h_bitmap" -> "DeleteObject"

\* the order in which the scope guards of a function run when it is left:
\* locals are dropped in reverse order of declaration
DropOrder_Declaration(g) == g

DropOrder(g) == Reverse(g)

\* leaving the function, on a return, on an error propagated by `?` or on a
\* panic: every guard alive runs its release once; a release that fails logs
\* an error and nothing else
drop_guards_AbortOnFailure ==
    /\ pc = "drop"
    /\ \E ok \in [Handles -> BOOLEAN] :
          /\ \A h \in Handles : ok[h] => acq[h] = "valid"
          /\ LET all == DropOrder(guards)
                 failing == {i \in 1..Len(all) : ~ok[all[i]]}
                 last == IF failing = {} THEN Len(all)
                         ELSE CHOOSE i \in failing : \A j \in failing : i <= j
                 order == SubSeq(all, 1, last)
             IN  /\ trace' = trace \o [i \in 1..Len(order) |-> Event(ReleaseOp(order[i]), ok[order[i]])]
                 /\ releases' = [h \in Handles |->
                                   releases[h] + Cardinality({i \in 1..Len(order) : order[i] = h})]
                 /\ live' = live \ {order[i] : i \in 1..Len(order)}
                 /\ logged' = {order[i] : i \in 1..Len(order)} \ {h \in Handles : ok[h]}
    /\ guards' = << >>
    /\ pc' = "done"
    /\ UNCHANGED << call, window_info, width, height, acq, selected, previous_object,
                    is_success, os_major, composition, buffer_len, has_header, crop, result >>

drop_guards ==
    /\ pc = "drop"
    /\ \E ok \in [Handles -> BOOLEAN] :
          /\ \A h \in Handles : ok[h] => acq[h] = "valid"
          /\ LET order == DropOrder(guards)
             IN  /\ trace' = trace \o [i \in 1..Len(order) |-> Event(ReleaseOp(order[i]), ok[order[i]])]
                 /\ releases' = [h \in Handles |->
                                   releases[h] + Cardinality({i \in 1..Len(order) : order[i] = h})]
                 /\ live' = live \ {order[i] : i \in 1..Len(order)}
                 /\ logged' = {order[i] : i \in 1..Len(order)} \ {h \in Handles : ok[h]}
    /\ guards' = << >>
    /\ pc' = "done"
    /\ UNCHANGED << call, window_info, width, height, acq, selected, previous_object,
                    is_success, os_major, composition, buffer_len, has_header, crop, result >>

----------------------------------------------------------------------------
(* capture_monitor(x, y, width, height)                                    *)

\* the call, GetDesktopWindow and the guarded GetWindowDC
cm_GetWindowDC ==
    /\ \E o \in MonitorOrigins, w \in MonitorSizes, h \in MonitorSizes :
          /\ FreshCall([fn |-> "capture_monitor", x |-> o[1], y |-> o[2],
                        width |-> w, height |-> h, scale_factor |-> 0])
          /\ width' = w
          /\ height' = h
    /\ \E ok \in BOOLEAN :
          /\ acq' = [Unset EXCEPT !["hdc_window"] = IF ok THEN "valid" ELSE "null"]
          /\ guards' = << "hdc_window" >>
          /\ live' = IF ok THEN live \cup {"hdc_window"} ELSE live
          /\ trace' = << Event("GetWindowDC", ok) >>
    /\ pc' = "cm_CreateCompatibleDC"
    /\ window_info' = NoInfo
    /\ result' = NoResult

cm_CreateCompatibleDC ==
    /\ pc = "cm_CreateCompatibleDC"
    /\ \E ok \in BOOLEAN :
          /\ Acquire("hdc_mem", ok, "cm_CreateCompatibleBitmap")
          /\ trace' = Append(trace, Event("CreateCompatibleDC", ok))
    /\ UNCHANGED << call, window_info, width, height, releases, selected, previous_object,
                    is_success, os_major, composition, buffer_len, has_header, crop, result, logged >>

\* CreateCompatibleBitmap needs the source DC; the bitmap is then selected
\* into the memory DC (the object selected before is not kept)
cm_CreateCompatibleBitmap ==
    /\ pc = "cm_CreateCompatibleBitmap"
    /\ \E ok \in BOOLEAN :
          /\ ok => acq["hdc_window"] = "valid"
          /\ Acquire("h_bitmap", ok, "cm_BitBlt")
          /\ selected' = IF CanSelect(ok) THEN "h_bitmap" ELSE selected
          /\ trace' = trace \o << Event("CreateCompatibleBitmap", ok),
                                  Event("SelectObject(h_bitmap)", CanSelect(ok)) >>
    /\ UNCHANGED << call, window_info, width, height, releases, previous_object,
                    is_success, os_major, composition, buffer_len, has_header, crop, result, logged >>

\* the error capture_monitor returns when its pixel transfer fails: the error
\* of BitBlt, propagated by `?`
CaptureMethodFailed == "BitBltError"

\* BitBlt(...)?: a failure is returned to the caller
cm_BitBlt_IgnoreFailure ==
    /\ pc = "cm_BitBlt"
    /\ \E ok \in BOOLEAN :
          /\ ok => (acq["hdc_mem"] = "valid" /\ acq["hdc_window"] = "valid")
          /\ trace' = Append(trace, Event("BitBlt", ok))
          /\ pc' = "cm_to_rgba_image"
          /\ result' = result
    /\ UNCHANGED << call, window_info, width, height, acq, guards, live, releases, selected,
                    previous_object, is_success, os_major, composition, buffer_len, has_header, crop, logged >>

cm_BitBlt ==
    /\ pc = "cm_BitBlt"
    /\ \E ok \in BOOLEAN :
          /\ ok => (acq["hdc_mem"] = "valid" /\ acq["hdc_window"] = "valid")
          /\ trace' = Append(trace, Event("BitBlt", ok))
          /\ IF ok
             THEN pc' = "cm_to_rgba_image" /\ result' = result
             ELSE pc' = "drop" /\ result' = Err(CaptureMethodFailed)
    /\ UNCHANGED << call, window_info, width, height, acq, guards, live, releases, selected,
                    previous_object, is_success, os_major, composition, buffer_len, has_header, crop, logged >>

\* to_rgba_image(*scope_guard_mem, *scope_guard_h_bitmap, width, height); a
\* write past the end of the buffer either goes unnoticed or ends the process
cm_to_rgba_image_Transposed ==
    /\ pc = "cm_to_rgba_image"
    /\ \E build \in Builds, dib_ok \in BOOLEAN :
          /\ dib_ok => GetDIBitsCanSucceed(acq, width, height)
          /\ LET r == to_rgba_image(height, width, build, dib_ok)
             IN  /\ buffer_len' = r.len
                 /\ trace' = IF r.called THEN Append(trace, Event("GetDIBits", dib_ok)) ELSE trace
                 /\ \E crash \in {FALSE, r.ub} :
                       IF crash
                       THEN result' = NoResult /\ pc' = "crashed"
                       ELSE result' = r.res /\ pc' = "drop"
    /\ UNCHANGED << call, window_info, width, height, acq, guards, live, releases, selected,
                    previous_object, is_success, os_major, composition, has_header, crop, logged >>

cm_to_rgba_image_ReadAfterDelete ==
    /\ pc = "cm_to_rgba_image"
    /\ \E build \in Builds, dib_ok \in BOOLEAN :
          /\ dib_ok => GetDIBitsCanSucceed(acq, width, height)
          /\ LET r == to_rgba_image(width, height, build, dib_ok)
                 del == Event("DeleteObject", acq["h_bitmap"] = "valid")
             IN  /\ buffer_len' = r.len
                 /\ trace' = IF r.called
                             THEN trace \o << del, Event("GetDIBits", dib_ok) >>
                             ELSE Append(trace, del)
                 /\ \E crash \in {FALSE, r.ub} :
                       IF crash
                       THEN result' = NoResult /\ pc' = "crashed"
                       ELSE result' = r.res /\ pc' = "drop"
    /\ guards' = SelectSeq(guards, LAMBDA g : g # "h_bitmap")
    /\ live' = live \ {"h_bitmap"}
    /\ releases' = [releases EXCEPT !["h_bitmap"] = @ + 1]
    /\ UNCHANGED << call, window_info, width, height, acq, selected,
                    previous_object, is_success, os_major, composition, has_header, crop, logged >>

cm_to_rgba_image ==
    /\ pc = "cm_to_rgba_image"
    /\ \E build \in Builds, dib_ok \in BOOLEAN :
          /\ dib_ok => GetDIBitsCanSucceed(acq, width, height)
          /\ LET r == to_rgba_image(width, height, build, dib_ok)
             IN  /\ buffer_len' = r.len
                 /\ trace' = IF r.called THEN Append(trace, Event("GetDIBits", dib_ok)) ELSE trace
                 /\ \E crash \in {FALSE, r.ub} :
                       IF crash
                       THEN result' = NoResult /\ pc' = "crashed"
                       ELSE result' = r.res /\ pc' = "drop"
    /\ UNCHANGED << call, window_info, width, height, acq, guards, live, releases, selected,
                    previous_object, is_success, os_major, composition, has_header, crop, logged >>

----------------------------------------------------------------------------
(* capture_window(hwnd, scale_factor)                                      *)

\* the call and get_window_info(hwnd)?: an error is returned before any
\* handle is acquired
cw_get_window_info ==
    /\ \E s \in ScaleFactors :
          FreshCall([fn |-> "capture_window", x |-> 0, y |-> 0,
                     width |-> 0, height |-> 0, scale_factor |-> s])
    /\ acq' = Unset
    /\ guards' = << >>
    /\ live' = live
    /\ trace' = << >>
    /\ \/ /\ window_info' = NoInfo
          /\ width' = 0
          /\ height' = 0
          /\ result' = Err("WindowInfoError")
          /\ pc' = "done"
       \/ \E wi \in WindowInfos :
             /\ window_info' = wi
             /\ width' = wi.rcWindow.right - wi.rcWindow.left
             /\ height' = wi.rcWindow.bottom - wi.rcWindow.top
             /\ result' = NoResult
             /\ pc' = "cw_GetWindowDC"

cw_GetWindowDC ==
    /\ pc = "cw_GetWindowDC"
    /\ \E ok \in BOOLEAN :
          /\ Acquire("hdc_window", ok, "cw_GetObjectW")
          /\ trace' = Append(trace, Event("GetWindowDC", ok))
    /\ UNCHANGED << call, window_info, width, height, releases, selected, previous_object,
                    is_success, os_major, composition, buffer_len, has_header, crop, result, logged >>

\* GetCurrentObject / GetObjectW: when the bitmap of the window DC can be
\* read its size replaces the size of the window rectangle; the size is then
\* scaled, rounding up
cw_GetObjectW ==
    /\ pc = "cw_GetObjectW"
    /\ \E w \in {width} \cup {b[1] : b \in BitmapSizes},
          h \in {height} \cup {b[2] : b \in BitmapSizes} :
          /\ \/ (w = width /\ h = height)
             \/ (acq["hdc_window"] = "valid" /\ << w, h >> \in BitmapSizes)
          /\ width' = F32Ceil(F32Mul(w, call.scale_factor))
          /\ height' = F32Ceil(F32Mul(h, call.scale_factor))
    /\ pc' = "cw_CreateCompatibleDC"
    /\ UNCHANGED << call, window_info, acq, guards, live, releases, selected, previous_object,
                    is_success, os_major, composition, buffer_len, has_header, crop, result, logged, trace >>

cw_CreateCompatibleDC ==
    /\ pc = "cw_CreateCompatibleDC"
    /\ \E ok \in BOOLEAN :
          /\ Acquire("hdc_mem", ok, "cw_CreateCompatibleBitmap")
          /\ trace' = Append(trace, Event("CreateCompatibleDC", ok))
    /\ UNCHANGED << call, window_info, width, height, releases, selected, previous_object,
                    is_success, os_major, composition, buffer_len, has_header, crop, result, logged >>

\* CreateCompatibleBitmap, then previous_object = SelectObject(hdc_mem, h_bitmap)
\* and is_success = false
cw_CreateCompatibleBitmap ==
    /\ pc = "cw_CreateCompatibleBitmap"
    /\ \E ok \in BOOLEAN :
          /\ ok => acq["hdc_window"] = "valid"
          /\ Acquire("h_bitmap", ok, "cw_technique1")
          /\ selected' = IF CanSelect(ok) THEN "h_bitmap" ELSE selected
          /\ previous_object' = IF CanSelect(ok) THEN selected ELSE "null"
          /\ trace' = trace \o << Event("CreateCompatibleBitmap", ok),
                                  Event("SelectObject(h_bitmap)", CanSelect(ok)) >>
    /\ is_success' = FALSE
    /\ UNCHANGED << call, window_info, width, height, releases,
                    os_major, composition, buffer_len, has_header, crop, result, logged >>

\* PrintWindow draws into the memory DC, which it needs
PrintWindowCanSucceed == acq["hdc_mem"] = "valid"

\* if get_os_major_version() >= 8 { is_success = PrintWindow(.., 2) }
cw_technique1_NoVersionCheck ==
    /\ pc = "cw_technique1"
    /\ \E v \in OsMajorVersions :
          /\ os_major' = v
          /\ \E ok \in BOOLEAN :
                /\ ok => PrintWindowCanSucceed
                /\ is_success' = ok
                /\ trace' = Append(trace, Event("PrintWindow2", ok))
    /\ pc' = "cw_technique2"
    /\ UNCHANGED << call, window_info, width, height, acq, guards, live, releases, selected,
                    previous_object, composition, buffer_len, has_header, crop, result, logged >>

cw_technique1 ==
    /\ pc = "cw_technique1"
    /\ \E v \in OsMajorVersions :
          /\ os_major' = v
          /\ IF v >= MinPrintWindowOsVersion
             THEN \E ok \in BOOLEAN :
                     /\ ok => PrintWindowCanSucceed
                     /\ is_success' = ok
                     /\ trace' = Append(trace, Event("PrintWindow2", ok))
             ELSE is_success' = is_success /\ trace' = trace
    /\ pc' = "cw_technique2"
    /\ UNCHANGED << call, window_info, width, height, acq, guards, live, releases, selected,
                    previous_object, composition, buffer_len, has_header, crop, result, logged >>

\* if !is_success && DwmIsCompositionEnabled()?.as_bool() { is_success = PrintWindow(.., 0) }
\* the query reports "on", "off" or an error, and the error is returned by `?`
cw_technique2_LeakOnError ==
    /\ pc = "cw_technique2"
    /\ IF is_success
       THEN /\ pc' = "cw_technique3"
            /\ UNCHANGED << is_success, composition, result, trace >>
       ELSE \E dwm \in {"on", "off", "error"} :
               /\ composition' = dwm
               /\ CASE dwm = "error" ->
                         /\ trace' = Append(trace, Event("DwmIsCompositionEnabled", FALSE))
                         /\ result' = Err("DwmError")
                         /\ pc' = "done"
                         /\ is_success' = is_success
                    [] dwm = "off" ->
                         /\ trace' = Append(trace, Event("DwmIsCompositionEnabled", TRUE))
                         /\ pc' = "cw_technique3"
                         /\ UNCHANGED << is_success, result >>
                    [] dwm = "on" ->
                         \E ok \in BOOLEAN :
                            /\ ok => PrintWindowCanSucceed
                            /\ trace' = trace \o << Event("DwmIsCompositionEnabled", TRUE),
                                                    Event("PrintWindow0", ok) >>
                            /\ is_success' = ok
                            /\ pc' = "cw_technique3"
                            /\ result' = result
    /\ UNCHANGED << call, window_info, width, height, acq, guards, live, releases, selected,
                    previous_object, os_major, buffer_len, has_header, crop, logged >>

cw_technique2 ==
    /\ pc = "cw_technique2"
    /\ IF is_success
       THEN /\ pc' = "cw_technique3"
            /\ UNCHANGED << is_success, composition, result, trace >>
       ELSE \E dwm \in {"on", "off", "error"} :
               /\ composition' = dwm
               /\ CASE dwm = "error" ->
                         /\ trace' = Append(trace, Event("DwmIsCompositionEnabled", FALSE))
                         /\ result' = Err("DwmError")
                         /\ pc' = "drop"
                         /\ is_success' = is_success
                    [] dwm = "off" ->
                         /\ trace' = Append(trace, Event("DwmIsCompositionEnabled", TRUE))
                         /\ pc' = "cw_technique3"
                         /\ UNCHANGED << is_success, result >>
                    [] dwm = "on" ->
                         \E ok \in BOOLEAN :
                            /\ ok => PrintWindowCanSucceed
                            /\ trace' = trace \o << Event("DwmIsCompositionEnabled", TRUE),
                                                    Event("PrintWindow0", ok) >>
                            /\ is_success' = ok
                            /\ pc' = "cw_technique3"
                            /\ result' = result
    /\ UNCHANGED << call, window_info, width, height, acq, guards, live, releases, selected,
                    previous_object, os_major, buffer_len, has_header, crop, logged >>

\* if !is_success { is_success = PrintWindow(.., 4) }
cw_technique3_Always ==
    /\ pc = "cw_technique3"
    /\ \E ok \in BOOLEAN :
          /\ ok => PrintWindowCanSucceed
          /\ is_success' = ok
          /\ trace' = Append(trace, Event("PrintWindow4", ok))
    /\ pc' = "cw_technique4"
    /\ UNCHANGED << call, window_info, width, height, acq, guards, live, releases, selected,
                    previous_object, os_major, composition, buffer_len, has_header, crop, result, logged >>

cw_technique3 ==
    /\ pc = "cw_technique3"
    /\ IF is_success
       THEN UNCHANGED << is_success, trace >>
       ELSE \E ok \in BOOLEAN :
               /\ ok => PrintWindowCanSucceed
               /\ is_success' = ok
               /\ trace' = Append(trace, Event("PrintWindow4", ok))
    /\ pc' = "cw_technique4"
    /\ UNCHANGED << call, window_info, width, height, acq, guards, live, releases, selected,
                    previous_object, os_major, composition, buffer_len, has_header, crop, result, logged >>

\* if !is_success { is_success = BitBlt(..).is_ok() }
cw_technique4 ==
    /\ pc = "cw_technique4"
    /\ IF is_success
       THEN UNCHANGED << is_success, trace >>
       ELSE \E ok \in BOOLEAN :
               /\ ok => (acq["hdc_mem"] = "valid" /\ acq["hdc_window"] = "valid")
               /\ is_success' = ok
               /\ trace' = Append(trace, Event("BitBlt", ok))
    /\ pc' = "cw_to_rgba_image"
    /\ UNCHANGED << call, window_info, width, height, acq, guards, live, releases, selected,
                    previous_object, os_major, composition, buffer_len, has_header, crop, result, logged >>

\* the crop rectangle of capture_window: by the classification of the window
CropRect(wi, s) ==
    IF window_has_native_header(wi) THEN NativeCrop(wi, s) ELSE CustomCrop(wi, s)

\* SelectObject(hdc_mem, previous_object) selects when the DC is valid and
\* previous_object is an object
CanRestore == acq["hdc_mem"] = "valid" /\ previous_object \notin {"null", "unset"}

\* SelectObject(hdc_mem, previous_object), to_rgba_image(..)? and the crop of
\* the image by the classification of the window
cw_to_rgba_image ==
    /\ pc = "cw_to_rgba_image"
    /\ selected' = IF CanRestore THEN previous_object ELSE selected
    /\ \E build \in Builds, dib_ok \in BOOLEAN :
          /\ dib_ok => GetDIBitsCanSucceed(acq, width, height)
          /\ LET r == to_rgba_image(width, height, build, dib_ok)
                 c == CropRect(window_info, call.scale_factor)
                 cropped == ImageCrop(r.res.width, r.res.height, c)
             IN  /\ trace' = IF r.called
                             THEN trace \o << Event("SelectObject(previous_object)", CanRestore),
                                             Event("GetDIBits", dib_ok) >>
                             ELSE Append(trace, Event("SelectObject(previous_object)", CanRestore))
                 /\ buffer_len' = r.len
                 /\ \E crash \in {FALSE, r.ub} :
                       IF crash
                       THEN /\ result' = NoResult
                            /\ pc' = "crashed"
                            /\ UNCHANGED << has_header, crop >>
                       ELSE /\ pc' = "drop"
                            /\ IF r.res.kind = "Ok"
                               THEN /\ has_header' = window_has_native_header(window_info)
                                    /\ crop' = c
                                    /\ result' = Ok(cropped.width, cropped.height)
                               ELSE /\ result' = r.res
                                    /\ UNCHANGED << has_header, crop >>
    /\ UNCHANGED << call, window_info, width, height, acq, guards, live, releases,
                    previous_object, is_success, os_major, composition, logged >>

----------------------------------------------------------------------------
(* The two entry points, called one after the other.                       *)

Next ==
    \/ cm_GetWindowDC
    \/ cm_CreateCompatibleDC
    \/ cm_CreateCompatibleBitmap
    \/ cm_BitBlt
    \/ cm_to_rgba_image
    \/ cw_get_window_info
    \/ cw_GetWindowDC
    \/ cw_GetObjectW
    \/ cw_CreateCompatibleDC
    \/ cw_CreateCompatibleBitmap
    \/ cw_technique1
    \/ cw_technique2
    \/ cw_technique3
    \/ cw_technique4
    \/ cw_to_rgba_image
    \/ drop_guards

Spec == Init /\ [][Next]_vars

----------------------------------------------------------------------------
(* The classifier on its own: window_has_native_header applied to every    *)
(* geometry around its thresholds and to every combination of style bits.  *)

InsetSlack == 1

TitleBarInsets == {0} \cup ((TitleBarThreshold - InsetSlack) .. (TitleBarThreshold + InsetSlack))

BorderInsets == {0} \cup ((BorderThreshold - InsetSlack) .. (BorderThreshold + InsetSlack))

ClassifierInputs ==
    { WindowInfo(Rect(0, 0, 200, 200), Rect(l, t, 200 - r, 200 - b), st) :
        l \in BorderInsets, t \in TitleBarInsets, r \in BorderInsets,
        b \in BorderInsets, st \in SUBSET StyleBits }

InitClassifier ==
    /\ pc = "classify"
    /\ call = NoCall
    /\ window_info \in ClassifierInputs
    /\ width = 0
    /\ height = 0
    /\ acq = Unset
    /\ guards = << >>
    /\ live = {}
    /\ releases = [h \in Handles |-> 0]
    /\ selected = "stock"
    /\ previous_object = "unset"
    /\ is_success = FALSE
    /\ os_major = 0
    /\ composition = "unset"
    /\ buffer_len = NoBuffer
    /\ has_header = "unset"
    /\ crop = NoCrop
    /\ result = NoResult
    /\ logged = {}
    /\ trace = << >>

classify ==
    /\ pc = "classify"
    /\ has_header' = window_has_native_header(window_info)
    /\ pc' = "classified"
    /\ UNCHANGED << call, window_info, width, height, acq, guards, live, releases, selected,
                    previous_object, is_success, os_major, composition, buffer_len, crop, result, logged, trace >>

NextClassifier == classify

SpecClassifier == InitClassifier /\ [][NextClassifier]_vars

----------------------------------------------------------------------------
(* Properties.                                                             *)

Returned == pc = "done"

HasEvent(op) == \E i \in 1..Len(trace) : trace[i].op = op

Succeeded(op) == \E i \in 1..Len(trace) : trace[i].op = op /\ trace[i].ok

Failed(op) == \E i \in 1..Len(trace) : trace[i].op = op /\ ~trace[i].ok

\* the positions of an OS call in the trace
Positions(op) == {i \in 1..Len(trace) : trace[i].op = op}

AcquireOp(h) ==
    CASE h = "hdc_window" -> "GetWindowDC"
      [] h = "hdc_mem" -> "CreateCompatibleDC"
      [] h = "h_bitmap" -> "CreateCompatibleBitmap"

TechniqueOps == {"PrintWindow2", "PrintWindow0", "PrintWindow4", "BitBlt"}

AllValid == \A h \in Handles : acq[h] = "valid"

\* C1: in capture_window, when every capture technique failed or was
\* unavailable and the final BitBlt failed too, the call returns the error
\* CaptureMethodFailed and no image (stated for the calls that acquired
\* their three handles).
C1_AllTechniquesFailedIsAnError ==
    (Returned /\ call.fn = "capture_window" /\ AllValid /\ Failed("BitBlt")
              /\ \A op \in TechniqueOps : ~Succeeded(op))
        => result.kind = "CaptureMethodFailed"

\* C2: on every exit path of capture_monitor and capture_window every handle
\* acquired during the call has been released exactly once when the call
\* returns, no handle is released more than once, and no handle is
\* outstanding after the call, however many calls came before.
C2_HandlesReleasedExactlyOnce ==
    /\ \A h \in Handles : releases[h] <= 1
    /\ Returned => /\ live = {}
                   /\ guards = << >>
                   /\ \A h \in Handles : acq[h] = "valid" => releases[h] = 1

\* an error exit of capture_window (the composition query failed) with all
\* three handles acquired
C2_Witness ==
    Returned /\ result.kind = "DwmError" /\ AllValid /\ live = {}

\* C3: the handles of one call are released in strictly reverse order of
\* acquisition: the bitmap first, then the memory DC, then the source DC.
C3_ReleasedInReverseOrder ==
    (Returned /\ HasEvent("GetWindowDC")) =>
        /\ \A h \in Handles :
              Cardinality(Positions(AcquireOp(h))) = 1 /\ Cardinality(Positions(ReleaseOp(h))) = 1
        /\ \A a, b \in Handles : \A ia \in Positions(AcquireOp(a)), ib \in Positions(AcquireOp(b)) :
              \A ra \in Positions(ReleaseOp(a)), rb \in Positions(ReleaseOp(b)) :
                 /\ ia < ra
                 /\ ia < ib => rb < ra
        /\ \A i, j \in 1..Len(trace) :
              (trace[i].op = "DeleteObject" /\ trace[j].op = "DeleteDC") => i < j
        /\ \A i, j \in 1..Len(trace) :
              (trace[i].op = "DeleteDC" /\ trace[j].op = "ReleaseDC") => i < j

\* capture_monitor left by the BitBlt error with all three handles acquired
C3_Witness ==
    Returned /\ call.fn = "capture_monitor" /\ result.kind = "BitBltError" /\ AllValid
             /\ HasEvent("DeleteObject") /\ HasEvent("DeleteDC") /\ HasEvent("ReleaseDC")

\* C4: when an acquisition (GetWindowDC, CreateCompatibleDC,
\* CreateCompatibleBitmap) yields no valid handle, the call fails with
\* ResourceAcquisitionFailed, no capture technique and no read-back runs, and
\* the handles acquired before are released.
C4_AcquisitionFailureIsFatal ==
    (Returned /\ \E h \in Handles : acq[h] = "null") =>
        /\ result.kind = "ResourceAcquisitionFailed"
        /\ \A op \in TechniqueOps \cup {"GetDIBits"} : ~HasEvent(op)
        /\ live = {}

\* C5: a failure of one technique of the fallback chain is not returned to
\* the caller; when technique 1 did not succeed and the composition query of
\* technique 2 fails, capture_window goes on to technique 3 (stated for the
\* calls that acquired their three handles).
C5_QueryFailureAdvances ==
    (Returned /\ call.fn = "capture_window" /\ AllValid /\ Failed("DwmIsCompositionEnabled")) =>
        /\ HasEvent("PrintWindow4")
        /\ result.kind # "DwmError"

\* C6: an image capture_window returns has width > 0 and height > 0, and a
\* crop rectangle of zero width or height makes the call fail with
\* InvalidDimensions (stated for the calls that acquired their three handles).
C6_WindowImageNotEmpty ==
    (Returned /\ call.fn = "capture_window" /\ AllValid) =>
        /\ result.kind = "Ok" => (result.width > 0 /\ result.height > 0)
        /\ (crop # NoCrop /\ (crop.w = 0 \/ crop.h = 0)) => result.kind = "InvalidDimensions"

\* C7: a capture_monitor(x, y, width, height) with width > 0 and height > 0
\* that succeeds returns an image of exactly the requested width and height.
C7_MonitorImageHasRequestedSize ==
    (Returned /\ call.fn = "capture_monitor" /\ call.width > 0 /\ call.height > 0
              /\ result.kind = "Ok")
        => (result.width = call.width /\ result.height = call.height)

C7_Witness ==
    Returned /\ call.fn = "capture_monitor" /\ result.kind = "Ok"
             /\ call.width = 100 /\ call.height = 1 /\ Succeeded("GetDIBits")

ScenarioWindow == WindowInfo(Rect(0, 0, 800, 600), Rect(8, 31, 792, 592), CaptionThick)

ScenarioCropped ==
    call.fn = "capture_window" /\ window_info = ScenarioWindow
        /\ call.scale_factor = Pow2(23) /\ crop # NoCrop

\* C8 as stated: the window (0,0,800,600) / (8,31,792,592) with caption and
\* thick frame is native chrome and is cropped at scale 1.0 to
\* (x=8, y=0, w=784, h=561).
C8_ScenarioCropAsStated ==
    ScenarioCropped => (has_header = TRUE /\ crop = [x |-> 8, y |-> 0, w |-> 784, h |-> 561])

\* C8 amended: that window is native chrome and is cropped at scale 1.0 to
\* (x=8, y=0, w=784, h=592): the height runs from the top of the window to
\* the bottom of the client area.
C8_ScenarioCropAmended ==
    ScenarioCropped =>
        /\ has_header = TRUE
        /\ crop = [x |-> 8, y |-> 0, w |-> 784, h |-> 592]

C8_Witness == ScenarioCropped /\ Returned /\ result = Ok(784, 592)

C10_CropFollowsPolicy ==
    crop # NoCrop =>
        LET rw == window_info.rcWindow
            rc == window_info.rcClient
            s == call.scale_factor
            ceil(d) == F32Ceil(F32Mul(d, s))
            floor(d) == F32Floor(F32Mul(d, s))
        IN  /\ has_header \in BOOLEAN
            /\ crop.x = ceil(rc.left - rw.left)
            /\ crop.w = floor(rc.right - rc.left)
            /\ has_header = TRUE => (crop.y = 0 /\ crop.h = floor(rc.bottom - rw.top))
            /\ has_header = FALSE => (crop.y = ceil(rc.top - rw.top)
                                      /\ crop.h = floor(rc.bottom - rc.top))

\* a custom-chrome window cropped at scale 1.5, where ceil and floor differ
C10_Witness ==
    Returned /\ result.kind = "Ok" /\ crop # NoCrop /\ has_header = FALSE
             /\ call.scale_factor = 3 * Pow2(22) /\ crop.x = 5 /\ crop.y = 39

\* C11: capture_monitor called with width <= 0 or height <= 0 fails with
\* InvalidDimensions: no pixel transfer and no read-back runs with the
\* non-positive size (stated for the calls that acquired their three
\* handles).
C11_NonPositiveSizeRejected ==
    (Returned /\ call.fn = "capture_monitor" /\ AllValid
              /\ (call.width <= 0 \/ call.height <= 0))
        => /\ result.kind = "InvalidDimensions"
           /\ ~HasEvent("BitBlt")
           /\ ~HasEvent("GetDIBits")

\* C12: a failing release (ReleaseDC, DeleteDC or DeleteObject reporting
\* failure) is only logged: leaving the function runs the release of every
\* guard whatever the releases report, and the result the call returns is
\* the one it had before the releases ran.
C12_ReleaseFailureOnlyLogged ==
    [][pc = "drop" =>
          /\ pc' = "done"
          /\ result' = result
          /\ \A i \in 1..Len(guards) : releases'[guards[i]] = releases[guards[i]] + 1
          /\ \A i \in 1..Len(guards) : guards[i] \notin live'
          /\ logged' \subseteq {guards[i] : i \in 1..Len(guards)}]_vars

\* a successful capture_window whose DeleteObject reported a failure on a
\* valid bitmap, the two device contexts released after it
C12_Witness ==
    /\ Returned /\ call.fn = "capture_window" /\ result.kind = "Ok" /\ AllValid
    /\ logged = {"h_bitmap"}
    /\ \A h \in Handles : releases[h] = 1

\* C13: in capture_monitor, when BitBlt reports failure the call fails with
\* the error of the pixel transfer (CaptureMethodFailed), no read-back of the
\* bitmap is attempted and no image is returned.
C13_MonitorBitBltFailureIsAnError ==
    (Returned /\ call.fn = "capture_monitor" /\ Failed("BitBlt")) =>
        /\ result.kind = CaptureMethodFailed
        /\ result.kind # "Ok"
        /\ ~HasEvent("GetDIBits")
        /\ buffer_len = NoBuffer

\* a capture_monitor(_, _, 100, 100) with its three handles acquired whose
\* BitBlt failed
C13_Witness ==
    /\ Returned /\ call.fn = "capture_monitor" /\ call.width = 100 /\ call.height = 100
    /\ AllValid /\ Failed("BitBlt") /\ result = Err(CaptureMethodFailed)

\* the place of a capture technique in the fallback chain of capture_window
TechniqueRank(op) ==
    CASE op = "PrintWindow2" -> 1
      [] op = "PrintWindow0" -> 2
      [] op = "PrintWindow4" -> 3
      [] op = "BitBlt" -> 4

\* C14: in capture_window the techniques are attempted in the order
\* 1 (PrintWindow, flags 2), 2 (PrintWindow, flags 0), 3 (PrintWindow,
\* flags 4), 4 (BitBlt): a technique is attempted only after every technique
\* attempted before it failed, each at most once, and none is attempted
\* after a technique that succeeded.
C14_TechniquesInOrderUntilSuccess ==
    call.fn = "capture_window" =>
        \A i, j \in 1..Len(trace) :
           (i < j /\ trace[i].op \in TechniqueOps /\ trace[j].op \in TechniqueOps) =>
               /\ TechniqueRank(trace[i].op) < TechniqueRank(trace[j].op)
               /\ ~trace[i].ok

\* techniques 1 and 2 failed, technique 3 succeeded and the screen copy was
\* not made
C14_Witness ==
    /\ Returned /\ call.fn = "capture_window"
    /\ Failed("PrintWindow2") /\ Failed("PrintWindow0") /\ Succeeded("PrintWindow4")
    /\ ~HasEvent("BitBlt") /\ result.kind = "Ok"

\* C15: technique 1 (PrintWindow, flags 2) is never invoked when the OS major
\* version is below 8; the render request of technique 2 (PrintWindow,
\* flags 0) is invoked only when the composition query reported composition
\* active; and the composition query is made only when technique 1 did not
\* succeed.
C15_TechniqueGuards ==
    call.fn = "capture_window" =>
        /\ HasEvent("PrintWindow2") => os_major >= 8
        /\ HasEvent("PrintWindow0") => (composition = "on" /\ Succeeded("DwmIsCompositionEnabled"))
        /\ HasEvent("DwmIsCompositionEnabled") => ~Succeeded("PrintWindow2")
        /\ composition # "unset" <=> HasEvent("DwmIsCompositionEnabled")

\* on an OS of major version 7 with composition reported off, techniques 1
\* and 2 made no render request and technique 3 was attempted
C15_Witness ==
    /\ Returned /\ call.fn = "capture_window" /\ os_major = 7 /\ composition = "off"
    /\ ~HasEvent("PrintWindow2") /\ ~HasEvent("PrintWindow0") /\ HasEvent("PrintWindow4")

\* C16: when the read-back of the bitmap (GetDIBits) fails, capture_monitor
\* and capture_window return the error of the read-back (PixelReadFailed)
\* and no image, no classification and no cropping is made, and the three
\* handles are released.
C16_ReadBackFailureIsAnError ==
    (Returned /\ Failed("GetDIBits")) =>
        /\ result = Err("PixelReadFailed")
        /\ crop = NoCrop
        /\ has_header = "unset"
        /\ \A h \in Handles : releases[h] = 1
        /\ live = {}

\* a capture_window with its three handles acquired and a technique that
\* succeeded, whose read-back failed
C16_Witness ==
    /\ Returned /\ call.fn = "capture_window" /\ AllValid /\ is_success
    /\ Failed("GetDIBits") /\ result.kind = "PixelReadFailed"
    /\ Succeeded("DeleteObject") /\ Succeeded("DeleteDC") /\ Succeeded("ReleaseDC")

ReleaseOps == {ReleaseOp(h) : h \in Handles}

\* C17: no OS call of a capture operation uses a handle of the capture
\* surface after it has been released: every select, render request, pixel
\* transfer and read-back of a call comes before the first release of that
\* call, and no release has run while the body of the function runs.
C17_NoUseAfterRelease ==
    /\ \A i, j \in 1..Len(trace) :
          (i < j /\ trace[i].op \in ReleaseOps) => trace[j].op \in ReleaseOps
    /\ pc \notin {"idle", "done"} => \A h \in Handles : releases[h] = 0

\* a capture_monitor that transferred and read back a 1 x 1 bitmap and then
\* released its three handles
C17_Witness ==
    /\ Returned /\ call.fn = "capture_monitor" /\ result = Ok(1, 1)
    /\ Succeeded("BitBlt") /\ Succeeded("GetDIBits")
    /\ \A h \in Handles : releases[h] = 1 /\ HasEvent(ReleaseOp(h))

\* C18: for every positive width and height the buffer to_rgba_image
\* allocates has length exactly width * height * 4, the product not changed
\* by the 32-bit signed arithmetic it is computed in (the length is compared
\* through its quotient by 4, the product itself being beyond 32 bits;
\* stated for the calls that acquired their three handles and reached
\* to_rgba_image after a pixel transfer that succeeded).
C18_BufferLengthIsExact ==
    (pc \in {"drop", "crashed"} /\ HasEvent("BitBlt") /\ width > 0 /\ height > 0
        /\ ~Failed("BitBlt") /\ AllValid) =>
        /\ buffer_len # NoBuffer
        /\ buffer_len % 4 = 0
        /\ buffer_len \div 4 = width * height

\* C19: a release function (ReleaseDC, DeleteDC, DeleteObject) is invoked
\* only on a handle whose acquisition succeeded: no release runs for a
\* handle that came back null.
C19_ReleaseOnlyAcquired ==
    \A h \in Handles : releases[h] > 0 => acq[h] = "valid"

\* C20: on every exit path of capture_monitor and capture_window the bitmap
\* has been deselected from the memory DC (the object selected before it
\* restored) when DeleteObject runs on it: the releases leave the selection
\* as it was, so after them the bitmap is not the object selected (stated for
\* the calls that acquired their three handles).
C20_DeselectedBeforeDelete ==
    (Returned /\ AllValid /\ HasEvent("DeleteObject")) => selected # "h_bitmap"

\* the steps at which a capture technique or the pixel transfer runs
TransferSteps == {"cm_BitBlt", "cw_technique1", "cw_technique2", "cw_technique3", "cw_technique4"}

\* C21: in both entry points the bitmap is the object selected into the
\* memory DC while a capture technique or the pixel transfer runs, and it is
\* not selected into the memory DC when GetDIBits reads it back: the steps
\* after the read-back leave the selection as it was (stated for the calls
\* that acquired their three handles).
C21_SelectedForTransferNotForReadBack ==
    AllValid =>
        /\ pc \in TransferSteps => selected = "h_bitmap"
        /\ (pc \in {"drop", "done"} /\ HasEvent("GetDIBits")) => selected # "h_bitmap"

\* the client rectangle of the window lies in its window rectangle
ClientInWindow(wi) ==
    /\ wi.rcWindow.left <= wi.rcClient.left /\ wi.rcClient.left <= wi.rcClient.right
    /\ wi.rcClient.right <= wi.rcWindow.right
    /\ wi.rcWindow.top <= wi.rcClient.top /\ wi.rcClient.top <= wi.rcClient.bottom
    /\ wi.rcClient.bottom <= wi.rcWindow.bottom

\* C22: for every window whose client rectangle lies in its window rectangle
\* and every positive scale factor the crop rectangle lies inside the
\* captured bitmap (x + w <= width, y + h <= height) and the image
\* capture_window returns has the width and height of the crop rectangle,
\* whether the size of the bitmap came from the window rectangle or from the
\* bitmap selected in the window DC.
C22_CropInsideBitmap ==
    (Returned /\ call.fn = "capture_window" /\ crop # NoCrop
              /\ ClientInWindow(window_info) /\ call.scale_factor > 0) =>
        /\ crop.x + crop.w <= width
        /\ crop.y + crop.h <= height
        /\ result = Ok(crop.w, crop.h)

====
